---- MODULE Spec2Model ----
(***************************************************************************)
(* Model of the monitor-hydric dashboards: the SQS notification poller     *)
(* (notifications_handler.py), the notification views that call it         *)
(* (streamlit_app.py, dashboard.py, streamlit_notifications.py) and the    *)
(* ThingSpeak fetcher (thingspeak_api.py).                                 *)
(*                                                                         *)
(* The queue is the environment: a message is visible, in flight (it was   *)
(* received and its visibility timeout runs) or deleted.  A message that   *)
(* was received and not deleted becomes visible again when its visibility  *)
(* timeout expires.                                                        *)
(***************************************************************************)
EXTENDS Integers, Sequences, FiniteSets, TLC

\* ------------------------------------------------------------------ bounds
MaxMsgs == 2          \* messages in the queue when the session starts
MaxRedeliveries == 1  \* visibility timeouts that expire within one session
MaxFeeds == 2         \* entries of the feeds array of a ThingSpeak response
MaxSamples == 2       \* rows of the DataFrame handed to processar_dados_thingspeak
MaxTime == 5          \* timestamps of the series; the mock series ends by MaxTime - 2
MaxReal == 2          \* rows of the real series

\* --------------------------------------------------------------- constants
AWS_BATCH_LIMIT == 10      \* notifications_handler.py:102, min(max_messages, 10)
VIEW_MAX_MESSAGES == 10    \* streamlit_app.py:735, get_all_notifications(max_messages=10)

\* The max_messages arguments followed, one per session.  The views pass
\* VIEW_MAX_MESSAGES; the small values make full batches (len(messages) ==
\* max_per_batch) happen with MaxMsgs messages, and the value above
\* AWS_BATCH_LIMIT exercises the min().
MaxMessagesArgs == {1, 2, VIEW_MAX_MESSAGES, VIEW_MAX_MESSAGES + 2}

Min(a, b) == IF a < b THEN a ELSE b

\* ------------------------------------------------------------ the messages
\* The shapes a received message can have.  "full": Body is a JSON object with
\* Subject, Message and Timestamp; "bare": Body is the JSON object {};
\* "invalid_json": Body is no JSON; "non_object": Body is JSON but no object
\* (a list, a string, null); "no_body" / "no_handle": the key is missing.
Shapes == {"full", "bare", "invalid_json", "non_object", "no_body", "no_handle"}

EntryPoints == {"streamlit_app", "dashboard", "streamlit_notifications"}
SecretKeys == {"SQS_QUEUE_URL", "AWS_REGION"}

VARIABLES
    entry,              \* the script that runs
    secrets,            \* the keys present in st.secrets
    max_messages,       \* the max_messages argument the script passes
    shape,              \* queue: message id -> shape of the message
    status,             \* queue: message id -> "visible" | "inflight" | "deleted"
    pc,                 \* position of the script
    sqs_client,         \* TRUE when boto3.client(...) gave a client, FALSE for None
    max_per_batch,      \* get_all_notifications: local max_per_batch
    response,           \* get_all_notifications: the last response of receive_message
    messages,           \* get_all_notifications: local messages (the current batch)
    idx,                \* get_all_notifications: position of the for loop in messages
    all_notifications,  \* get_all_notifications: local all_notifications
    notifications,      \* st.session_state.notifications
    shown,              \* what the run showed: "nothing", "view", "warning", "error"
    uncaught,           \* TRUE when an exception left the script uncaught
    calls,              \* history: the SQS calls issued and the appends since the
                        \* last fetch began, in order
    received,           \* history: the messages received in the current fetch, in order
    returned,           \* history: the concatenation of all lists get_all_notifications returned
    nReceive,           \* history: receive_message calls of the current fetch
    sizeAtCall,         \* history: messages held by the queue when the current fetch began
    nRedelivered,       \* history: visibility timeouts that expired in this session
    http,               \* what requests.get meets: transport, status and body
    fetch,              \* buscar_dados_thingspeak: not called yet, or what it gave
    df_thingspeak,      \* processar_dados_thingspeak: its argument
    dados_processados,  \* processar_dados_thingspeak: not called yet, or what it gave
    metrics,            \* calcular_qualidade_agua: its four arguments
    score,              \* calcular_qualidade_agua: not called yet, or what it gave
    score_teste,        \* calcular_qualidade_agua of teste.py: not called yet, or what it gave
    df_qualidade_mock,  \* combinar_dados_mockados_e_reais: the mock series it generates
    df_qualidade_real,  \* combinar_dados_mockados_e_reais: its argument
    combinado,          \* combinar_dados_mockados_e_reais: not called yet, or what it gave
    notification,       \* parse_notification_params: its argument
    params,             \* parse_notification_params: not called yet, or what it gave
    page,               \* st.session_state.page
    last_seen_notifications_count,  \* st.session_state.last_seen_notifications_count
    new_notifications_count         \* st.session_state.new_notifications_count

vars == <<entry, secrets, max_messages, shape, status, pc, sqs_client, max_per_batch, response,
          messages, idx, all_notifications, notifications, shown, uncaught,
          calls, received, returned, nReceive, sizeAtCall, nRedelivered,
          http, fetch, df_thingspeak, dados_processados, metrics, score, score_teste,
          df_qualidade_mock, df_qualidade_real, combinado, notification, params,
          page, last_seen_notifications_count, new_notifications_count>>

handlerVars == <<max_per_batch, response, messages, idx, all_notifications,
                 received, nReceive, sizeAtCall>>
configVars == <<entry, secrets, max_messages, shape>>
fetchVars == <<http, fetch>>
dataVars == <<df_thingspeak, dados_processados, metrics, score, score_teste>>
mergeVars == <<df_qualidade_mock, df_qualidade_real, combinado>>
parseVars == <<notification, params>>
sidebarVars == <<page, last_seen_notifications_count, new_notifications_count>>
queueVars == <<configVars, status, pc, sqs_client, handlerVars, notifications, shown,
               uncaught, calls, returned, nRedelivered, sidebarVars>>

Ids == DOMAIN shape

\* message['ReceiptHandle'] (line 119) and message['Body'] (line 122) exist
HasReceiptHandle(m) == shape[m] # "no_handle"
HasBody(m) == shape[m] # "no_body"

\* json.loads(message['Body']) (line 123): the kind of value it gives, and the
\* keys of the object when it is one
JsonLoads(m) ==
    CASE shape[m] \in {"full", "no_handle"} ->
            [kind |-> "object", keys |-> {"Subject", "Message", "Timestamp"}]
      [] shape[m] = "bare" -> [kind |-> "object", keys |-> {}]
      [] shape[m] = "non_object" -> [kind |-> "other", keys |-> {}]
      [] OTHER -> [kind |-> "error", keys |-> {}]

\* Parses that takes any JSON value for an object
Parses_AnyJson(m) ==
    /\ HasReceiptHandle(m)
    /\ HasBody(m)
    /\ JsonLoads(m).kind # "error"

\* Lines 119-128 complete without an exception: KeyError for a missing key,
\* JSONDecodeError for no JSON, AttributeError for .get on a non-object.
Parses(m) ==
    /\ HasReceiptHandle(m)
    /\ HasBody(m)
    /\ JsonLoads(m).kind = "object"

\* sns_message_data.get(key, default) (lines 126-128); a present value is
\* written <<key, m>>, the text the message m carries under that key
GetField(m, key, default) ==
    IF key \in JsonLoads(m).keys THEN <<key, m>> ELSE <<default, 0>>

\* The dict appended at lines 130-134.  id is history: the message it came from.
Notification(m) ==
    [subject |-> GetField(m, "Subject", "Sem Assunto"),
     message |-> GetField(m, "Message", "Sem Mensagem"),
     timestamp |-> GetField(m, "Timestamp", ""),
     id |-> m]

ReceiveCall(k) == [op |-> "receive_message", arg |-> k]
DeleteCall(m) == [op |-> "delete_message", arg |-> m]
AppendEvent(m) == [op |-> "append", arg |-> m]

Visible == {m \in Ids : status[m] = "visible"}
InQueue == {m \in Ids : status[m] # "deleted"}

RECURSIVE SeqsOver(_, _)
\* the sequences of n distinct elements of S
SeqsOver(S, n) ==
    IF n = 0 THEN {<< >>}
    ELSE UNION {{<<x>> \o s : s \in SeqsOver(S \ {x}, n - 1)} : x \in S}

\* What receive_message(MaxNumberOfMessages=k) can return as Messages: any
\* 1..k visible messages, in any order (a standard queue orders best-effort
\* and may return fewer messages than it holds).
Batches(k) ==
    UNION {SeqsOver(Visible, n) : n \in 1..Min(k, Cardinality(Visible))}

Range(s) == {s[i] : i \in 1..Len(s)}

Reverse(s) == [i \in 1..Len(s) |-> s[Len(s) + 1 - i]]

RECURSIVE InsertEach(_, _)
\* for notif in items: lst.insert(0, notif)
InsertEach(lst, items) ==
    IF items = << >> THEN lst
    ELSE InsertEach(<<Head(items)>> \o lst, Tail(items))

\* ---------------------------------------------- NotificationsHandler (poller)

\* No call of get_all_notifications is under way: its locals and the history
\* of the call are empty
NoCall ==
    /\ max_per_batch = 0
    /\ response = [raised |-> FALSE, Messages |-> << >>]
    /\ messages = << >>
    /\ idx = 1
    /\ all_notifications = << >>
    /\ calls = << >>
    /\ received = << >>
    /\ nReceive = 0
    /\ sizeAtCall = 0

\* The call ends: NoCall holds again
EndCall ==
    /\ max_per_batch' = 0
    /\ response' = [raised |-> FALSE, Messages |-> << >>]
    /\ messages' = << >>
    /\ idx' = 1
    /\ all_notifications' = << >>
    /\ calls' = << >>
    /\ received' = << >>
    /\ nReceive' = 0
    /\ sizeAtCall' = 0

\* max_per_batch = min(max_messages, 10)
MaxPerBatch(n) == Min(n, AWS_BATCH_LIMIT)

\* LoopContinues with the test written "<=": a full batch ends the loop too
LoopContinues_OffByOne(batch, k) == ~(Len(batch) <= k)

\* the while loop goes round again: not (len(messages) < max_per_batch)
LoopContinues(batch, k) == ~(Len(batch) < k)

\* Collect with insert(0, ...) in place of append
Collect_Prepend(all, notif) == <<notif>> \o all

\* all_notifications.append({...})
Collect(all, notif) == Append(all, notif)

\* ProcessEvents without the delete_message call
ProcessEvents_NoDelete(m) == <<AppendEvent(m)>>

\* What a parsed message makes the handler do, in order: the append of lines
\* 130-134, then the delete_message call of lines 137-140.
ProcessEvents(m) == <<AppendEvent(m), DeleteCall(m)>>

\* NextAfterError with the try around the for loop instead of inside it: the
\* first message that fails ends the batch
NextAfterError_Break(i, batch) == Len(batch) + 1

\* except Exception ... continue (lines 141-143): the for loop goes to the
\* next message of the batch
NextAfterError(i, batch) == i + 1

\* OnReceiveError with "return []" in the except branch
OnReceiveError_Discard(all) == << >>

\* except Exception at line 149, then return all_notifications: what was
\* collected is returned
OnReceiveError(all) == all

\* After the for loop took its step to position i: still in the batch, or the
\* test of lines 146-147
AfterMessage(i) ==
    IF i <= Len(messages) THEN "process"
    ELSE IF LoopContinues(messages, max_per_batch) THEN "receive" ELSE "done"

\* get_all_notifications(max_messages=...) up to the first receive_message: with
\* no client it returns [] at once, and the caller inserts nothing
CallGetAll ==
    /\ IF sqs_client
       THEN /\ all_notifications' = << >>
            /\ max_per_batch' = MaxPerBatch(max_messages)
            /\ received' = << >>
            /\ nReceive' = 0
            /\ sizeAtCall' = Cardinality(InQueue)
            /\ calls' = << >>
            /\ pc' = "receive"
       ELSE /\ UNCHANGED <<all_notifications, max_per_batch, received, nReceive,
                           sizeAtCall, calls>>
            /\ pc' = "view"
    /\ UNCHANGED <<sidebarVars, parseVars, mergeVars, dataVars, fetchVars, configVars, status,
                   sqs_client, response, messages, idx,
                   notifications, shown, uncaught, returned, nRedelivered>>

\* receive_message(MaxNumberOfMessages=max_per_batch, WaitTimeSeconds=2) and
\* what follows it up to the for loop
ReceiveMessage ==
    /\ pc = "receive"
    /\ nReceive' = nReceive + 1
    /\ calls' = Append(calls, ReceiveCall(max_per_batch))
    /\ \/ \* the call raises: the outer except, then return
          /\ response' = [raised |-> TRUE, Messages |-> << >>]
          /\ all_notifications' = OnReceiveError(all_notifications)
          /\ pc' = "done"
          /\ UNCHANGED <<status, messages, idx, received>>
       \/ \* 'Messages' not in response: break
          /\ response' = [raised |-> FALSE, Messages |-> << >>]
          /\ pc' = "done"
          /\ UNCHANGED <<status, messages, idx, received, all_notifications>>
       \/ \E batch \in Batches(max_per_batch) :
          /\ response' = [raised |-> FALSE, Messages |-> batch]
          /\ messages' = batch
          /\ idx' = 1
          /\ status' = [m \in Ids |-> IF m \in Range(batch) THEN "inflight" ELSE status[m]]
          /\ received' = received \o batch
          /\ pc' = "process"
          /\ UNCHANGED all_notifications
    /\ UNCHANGED <<sidebarVars, parseVars, mergeVars, dataVars, fetchVars, configVars, sqs_client,
                   max_per_batch, notifications, shown,
                   uncaught, returned, sizeAtCall, nRedelivered>>

\* One round of the for loop (lines 117-143) and, after the last message, the
\* test of lines 146-147.  delete_message succeeds or raises.
ProcessMessage ==
    /\ pc = "process"
    /\ LET m == messages[idx] IN
       IF Parses(m)
       THEN /\ all_notifications' = Collect(all_notifications, Notification(m))
            /\ calls' = calls \o ProcessEvents(m)
            /\ \E deleted \in BOOLEAN :
                 status' = IF deleted /\ DeleteCall(m) \in Range(ProcessEvents(m))
                           THEN [status EXCEPT ![m] = "deleted"]
                           ELSE status
            /\ idx' = idx + 1
       ELSE /\ idx' = NextAfterError(idx, messages)
            /\ UNCHANGED <<all_notifications, calls, status>>
    /\ pc' = AfterMessage(idx')
    /\ UNCHANGED <<sidebarVars, parseVars, mergeVars, dataVars, fetchVars, configVars, sqs_client,
                   max_per_batch, response, messages,
                   notifications, shown, uncaught, received, returned, nReceive,
                   sizeAtCall, nRedelivered>>

\* The visibility timeout of a message that was received and not deleted
\* expires: the queue offers it again.  Only a receive_message call sees it,
\* so the expiry is taken where the script is about to issue one.
VisibilityTimeout ==
    /\ pc \in {"receive", "sn_loop"}
    /\ nRedelivered < MaxRedeliveries
    /\ nRedelivered' = nRedelivered + 1
    /\ \E m \in Ids :
         /\ status[m] = "inflight"
         /\ status' = [status EXCEPT ![m] = "visible"]
    /\ UNCHANGED <<sidebarVars, parseVars, mergeVars, dataVars, fetchVars, configVars, pc,
                   sqs_client, max_per_batch, response, messages,
                   idx, all_notifications, notifications, shown, uncaught, calls,
                   received, returned, nReceive, sizeAtCall>>

\* ReturnAfterDelete that returns the notification whether or not
\* delete_message raised
ReturnAfterDelete_Always(deleted, m) == m

\* get_notification after its delete_message call (lines 68-81): the
\* notification of the message m when the call completed, None (written 0)
\* when it raised
ReturnAfterDelete(deleted, m) == IF deleted THEN m ELSE 0

\* NotificationsHandler.get_notification(), lines 35-83, called on a handler
\* the view holds: None at once without a client; else one receive_message
\* of one message, and for a message that parses one delete_message.  calls
\* is the log of the call, returned the notifications the calls gave.
get_notification ==
    /\ pc = "view"
    /\ IF ~sqs_client
       THEN /\ calls' = << >>
            /\ UNCHANGED <<status, returned>>
       ELSE \/ \* receive_message raises, or 'Messages' not in response
               /\ calls' = <<ReceiveCall(1)>>
               /\ UNCHANGED <<status, returned>>
            \/ \E m \in Visible :
               IF Parses(m)
               THEN \E deleted \in BOOLEAN :
                    /\ calls' = <<ReceiveCall(1), DeleteCall(m)>>
                    /\ status' = [status EXCEPT ![m] = IF deleted THEN "deleted"
                                                      ELSE "inflight"]
                    /\ returned' = IF ReturnAfterDelete(deleted, m) # 0
                                   THEN Append(returned, Notification(m))
                                   ELSE returned
               ELSE /\ calls' = <<ReceiveCall(1)>>
                    /\ status' = [status EXCEPT ![m] = "inflight"]
                    /\ UNCHANGED returned
    /\ UNCHANGED <<sidebarVars, parseVars, mergeVars, dataVars, fetchVars, configVars, pc,
                   sqs_client, handlerVars, notifications, shown, uncaught,
                   nRedelivered>>

\* ------------------------------- notifications view (streamlit_app, dashboard)

\* "SQS_QUEUE_URL" in st.secrets and "AWS_REGION" in st.secrets
CredentialsAvailable(s) == "SQS_QUEUE_URL" \in s /\ "AWS_REGION" \in s

\* InsertNew with the history assigned instead of extended
InsertNew_Replace(lst, new) == new

\* for notif in reversed(new_notifications):
\*     st.session_state.notifications.insert(0, notif)
InsertNew(lst, new) == InsertEach(lst, Reverse(new))

\* First render of the view: the credentials test, the handler (whose
\* boto3.client may fail, leaving sqs_client None) and the empty history; or
\* the st.warning of the else branch.
OpenView ==
    /\ pc = "start"
    /\ entry \in {"streamlit_app", "dashboard"}
    /\ IF CredentialsAvailable(secrets)
       THEN /\ sqs_client' \in BOOLEAN
            /\ notifications' = << >>
            /\ shown' = "view"
            /\ pc' = "view"
       ELSE /\ shown' = "warning"
            /\ pc' = "end"
            /\ UNCHANGED <<sqs_client, notifications>>
    /\ UNCHANGED <<sidebarVars, parseVars, mergeVars, dataVars, fetchVars, configVars, status,
                   handlerVars, uncaught, calls, returned,
                   nRedelivered>>

\* The button "Buscar Todas as Notificacoes" is clicked
ManualFetch ==
    /\ pc = "view"
    /\ CallGetAll

\* The checkbox "Auto-atualizar a cada 30s" is set: sleep, then fetch
AutoRefresh ==
    /\ pc = "view"
    /\ CallGetAll

\* SeenAfterFetch that counts the notifications but the newest
SeenAfterFetch_LessOne(lst) == Len(lst) - 1

\* last_seen_notifications_count = len(st.session_state.notifications), lines
\* 743 and 822
SeenAfterFetch(lst) == Len(lst)

\* get_all_notifications returns (its locals end with it) and the view puts
\* the new notifications on top of the history and, in streamlit_app.py,
\* marks them seen; then st.rerun()
FinishFetch ==
    /\ pc = "done"
    /\ returned' = returned \o all_notifications
    /\ notifications' = IF all_notifications # << >>
                        THEN InsertNew(notifications, all_notifications)
                        ELSE notifications
    /\ IF all_notifications # << >> /\ entry = "streamlit_app"
       THEN /\ last_seen_notifications_count' = SeenAfterFetch(notifications')
            /\ new_notifications_count' = 0
       ELSE UNCHANGED <<last_seen_notifications_count, new_notifications_count>>
    /\ pc' = "view"
    /\ EndCall
    /\ UNCHANGED <<page, parseVars, mergeVars, dataVars, fetchVars, configVars, status,
                   sqs_client, shown, uncaught, nRedelivered>>

\* ----------------------------------------------------- streamlit_app (sidebar)

Pages == {"Dashboard", "Notificacoes", "Logout"}

\* The script is between two runs: a page was rendered to its end
Rendered == pc \in {"page", "view", "end"}

\* The sidebar button of the dashboard or of the logout page is clicked
\* (lines 386-387, 404-405) and that page is rendered
SelectPage ==
    /\ Rendered
    /\ page' \in Pages \ {"Notificacoes"}
    /\ pc' = "page"
    /\ UNCHANGED <<last_seen_notifications_count, new_notifications_count, parseVars,
                   mergeVars, dataVars, fetchVars, configVars, status, sqs_client,
                   handlerVars, notifications, shown, uncaught, calls, returned,
                   nRedelivered>>

\* The sidebar button of the notifications is clicked (lines 398-402): the
\* notifications counted at line 390 are marked seen, and the view is
\* rendered, for the first time or over the handler and the history the
\* session holds
SelectNotificacoes ==
    /\ Rendered
    /\ page' = "Notificacoes"
    /\ last_seen_notifications_count' = Len(notifications)
    /\ new_notifications_count' = 0
    /\ pc' = IF shown = "view" THEN "view" ELSE "start"
    /\ UNCHANGED <<parseVars, mergeVars, dataVars, fetchVars, configVars, status,
                   sqs_client, handlerVars, notifications, shown, uncaught, calls,
                   returned, nRedelivered>>

\* -------------------------------------------------- streamlit_notifications

\* get_notification_from_sqs(): one receive_message of one message; res is
\* the message whose text it returns, 0 for None.
GetNotificationFromSqs(res) ==
    \/ \* receive_message raises, or 'Messages' not in response
       /\ res = 0
       /\ calls' = <<ReceiveCall(1)>>
       /\ UNCHANGED status
    \/ \E m \in Visible :
       IF Parses(m)
       THEN \E deleted \in BOOLEAN :
            /\ calls' = <<ReceiveCall(1), DeleteCall(m)>>
            /\ status' = [status EXCEPT ![m] = IF deleted THEN "deleted" ELSE "inflight"]
            /\ res = IF deleted THEN m ELSE 0
       ELSE /\ res = 0
            /\ calls' = <<ReceiveCall(1)>>
            /\ status' = [status EXCEPT ![m] = "inflight"]

\* Module level: st.secrets["SQS_QUEUE_URL"], st.secrets["AWS_REGION"] (a
\* KeyError when the key is absent, caught by nothing), then boto3.client,
\* whose failure is shown with st.error before st.stop()
SN_Configure ==
    /\ pc = "start"
    /\ entry = "streamlit_notifications"
    /\ IF SecretKeys \subseteq secrets
       THEN /\ sqs_client' \in BOOLEAN
            /\ pc' = IF sqs_client' THEN "sn_first" ELSE "end"
            /\ shown' = IF sqs_client' THEN shown ELSE "error"
            /\ UNCHANGED uncaught
       ELSE /\ uncaught' = TRUE
            /\ pc' = "end"
            /\ UNCHANGED <<sqs_client, shown>>
    /\ UNCHANGED <<sidebarVars, parseVars, mergeVars, dataVars, fetchVars, configVars, status,
                   handlerVars, notifications, calls, returned,
                   nRedelivered>>

\* Line 59: get_notification_from_sqs() called for nothing, its result
\* dropped; then the page and the empty history
SN_FirstCall ==
    /\ pc = "sn_first"
    /\ \E res \in Ids \cup {0} : GetNotificationFromSqs(res)
    /\ notifications' = << >>
    /\ shown' = "view"
    /\ pc' = "sn_loop"
    /\ UNCHANGED <<sidebarVars, parseVars, mergeVars, dataVars, fetchVars, configVars, sqs_client,
                   handlerVars, uncaught, returned,
                   nRedelivered>>

\* One round of the while True loop
SN_Poll ==
    /\ pc = "sn_loop"
    /\ \E res \in Ids \cup {0} :
         /\ GetNotificationFromSqs(res)
         /\ notifications' = IF res # 0 THEN <<Notification(res)>> \o notifications
                             ELSE notifications
    /\ UNCHANGED <<sidebarVars, parseVars, mergeVars, dataVars, fetchVars, configVars, pc,
                   sqs_client, handlerVars, shown, uncaught,
                   returned, nRedelivered>>

\* ------------------------------------------------- thingspeak_api (fetcher)

\* The status codes requests.get hands back to the caller: a success, a 3xx
\* that requests does not follow (300 Multiple Choices carries no redirect),
\* a client error and a server error.
HttpStatuses == {200, 300, 404, 500}

\* created_at of a sample: an ISO timestamp, a text that is no timestamp, or
\* the key is absent
CreatedAtKinds == {"iso", "unparseable", "absent"}

RECURSIVE FeedsOfLen(_)
\* the feeds arrays of n samples
FeedsOfLen(n) ==
    IF n = 0 THEN {<< >>}
    ELSE {Append(f, [created_at |-> c]) : f \in FeedsOfLen(n - 1), c \in CreatedAtKinds}

\* A response body.  json: what response.json() meets ("undecodable": no
\* JSON; "null", "number", "string", "list": JSON that is no object;
\* "object"); feeds: the value under the key 'feeds' of an object ("absent",
\* "null", "number", "list"); rows: the samples when feeds is a list.
Body(json, feeds, rows) == [json |-> json, feeds |-> feeds, rows |-> rows]

Bodies ==
    {Body(j, "absent", << >>) :
        j \in {"undecodable", "null", "number", "string", "list", "object"}}
    \cup {Body("object", f, << >>) : f \in {"null", "number"}}
    \cup {Body("object", "list", r) : r \in UNION {FeedsOfLen(n) : n \in 0..MaxFeeds}}

NoBody == Body("undecodable", "absent", << >>)

\* What requests.get(url, params=params, timeout=10) can meet: no connection,
\* no answer within the timeout, or a response
HttpExchanges ==
    {[transport |-> t, status |-> 0, body |-> NoBody] : t \in {"ConnectionError", "Timeout"}}
    \cup {[transport |-> "ok", status |-> c, body |-> b] : c \in HttpStatuses, b \in Bodies}

\* the scripts that do not fetch make no request
NoRequest == [transport |-> "none", status |-> 0, body |-> NoBody]

\* buscar_dados_thingspeak was not called yet
NotCalled == [state |-> "not_called", none |-> TRUE, df |-> << >>, sucesso |-> FALSE]

\* the try block ends with the exception e / with return df, sucesso (none:
\* df is None)
Raise(e) == [exc |-> e, none |-> TRUE, df |-> << >>, sucesso |-> FALSE]
Return(none, df, sucesso) == [exc |-> "", none |-> none, df |-> df, sucesso |-> sucesso]

\* response.raise_for_status(): HTTPError for the client errors (400..499)
\* and the server errors (500..599), nothing for any other status
RaisesForStatus(code) == 400 <= code /\ code < 600

\* len(data['feeds']) > 0
FeedsNonEmpty(rows) == Len(rows) > 0

\* pd.to_datetime(df['created_at']) raises for a text that is no timestamp; a
\* sample without the key gives NaT
ToDatetimeRaises(rows) == \E i \in 1..Len(rows) : rows[i].created_at = "unparseable"

\* 'created_at' in df.columns: some sample has the key
HasCreatedAt(rows) == \E i \in 1..Len(rows) : rows[i].created_at # "absent"

\* The try block, lines 31-65
TryBlock(h) ==
    IF h.transport # "ok" THEN Raise(h.transport)
    ELSE IF RaisesForStatus(h.status) THEN Raise("HTTPError")
    ELSE IF h.body.json = "undecodable" THEN Raise("JSONDecodeError")
    \* 'feeds' in data: a TypeError for null and for a number, False for a
    \* string or a list that does not hold 'feeds'
    ELSE IF h.body.json \in {"null", "number"} THEN Raise("TypeError")
    ELSE IF h.body.json \in {"string", "list"} THEN Return(TRUE, << >>, FALSE)
    ELSE IF h.body.feeds = "absent" THEN Return(TRUE, << >>, FALSE)
    \* len(data['feeds']): a TypeError for null and for a number
    ELSE IF h.body.feeds \in {"null", "number"} THEN Raise("TypeError")
    ELSE IF ~FeedsNonEmpty(h.body.rows) THEN Return(TRUE, << >>, FALSE)
    ELSE IF HasCreatedAt(h.body.rows) /\ ToDatetimeRaises(h.body.rows)
         THEN Raise("ValueError")
    ELSE Return(FALSE, h.body.rows, TRUE)

\* except requests.exceptions.RequestException (line 67)
RequestExceptions == {"ConnectionError", "Timeout", "HTTPError", "JSONDecodeError"}

\* except Exception (line 70): what the try block can raise is all Exception
Exceptions == RequestExceptions \cup {"TypeError", "ValueError"}

\* buscar_dados_thingspeak(), called by the data pages of streamlit_app.py
\* and dashboard.py
buscar_dados_thingspeak ==
    /\ fetch.state = "not_called"
    /\ LET r == TryBlock(http) IN
       fetch' = IF r.exc = ""
                THEN [state |-> "returned", none |-> r.none, df |-> r.df,
                      sucesso |-> r.sucesso]
                ELSE IF r.exc \in RequestExceptions \/ r.exc \in Exceptions
                THEN [state |-> "returned", none |-> TRUE, df |-> << >>,
                      sucesso |-> FALSE]
                ELSE [state |-> "raised", none |-> TRUE, df |-> << >>,
                      sucesso |-> FALSE]
    /\ UNCHANGED <<sidebarVars, parseVars, mergeVars, dataVars, http, queueVars>>

\* ------------------------------------- thingspeak_api (normalizer and scorer)

\* Numbers are fixed-point so that every product and quotient of the code is
\* exact: a metric value v stands for v/10 (70 is pH 7.0, 225 is 22.5 degrees,
\* 10000 is 1000 mg/L), a sub-score s for s/100, the composite q for q/400.

Fields == {"field1", "field2", "field3", "field4"}

\* What a cell of the DataFrame holds
Num(v) == [t |-> "num", v |-> v, s |-> ""]          \* a number, or its decimal text
Text(str) == [t |-> "text", v |-> 0, s |-> str]     \* any other text
Null == [t |-> "null", v |-> 0, s |-> ""]           \* JSON null, Python None
NaN == [t |-> "nan", v |-> 0, s |-> ""]             \* float('nan')
Absent == [t |-> "absent", v |-> 0, s |-> ""]       \* the sample has no such key

\* The texts a field can carry beside decimal numbers: empty, no number, and
\* the spellings of NaN (a sensor that prints with a field width pads it)
Texts == {"", "abc", "nan", "NaN", "NAN", " NaN"}

\* str.lower() and str.strip() on Texts
Lower(str) ==
    CASE str \in {"nan", "NaN", "NAN"} -> "nan"
      [] str = " NaN" -> " nan"
      [] OTHER -> str

Strip(str) == IF str = " NaN" THEN "NaN" ELSE str

\* The numbers a field can carry, in tenths
FieldNumbers == {-50, 30, 225}

Cells == {Absent, Null} \cup {Text(x) : x \in Texts} \cup {Num(v) : v \in FieldNumbers}

\* The samples before the last: one that has every field, one that has none
EarlierSamples == {[f \in Fields |-> Num(10)], [f \in Fields |-> Absent]}

RECURSIVE SamplesOfLen(_)
SamplesOfLen(n) ==
    IF n = 0 THEN {<< >>}
    ELSE {<<r>> \o rest : r \in EarlierSamples, rest \in SamplesOfLen(n - 1)}

\* df_thingspeak: None, or the rows pd.DataFrame made of the samples
Frame(none, rows) == [none |-> none, rows |-> rows]
NoFrame == Frame(TRUE, << >>)

DataFrames ==
    {NoFrame, Frame(FALSE, << >>)}
    \cup {Frame(FALSE, Append(before, last)) :
            before \in UNION {SamplesOfLen(n) : n \in 0..(MaxSamples - 1)},
            last \in [Fields -> Cells]}

\* df_thingspeak.columns: a key of any sample is a column
Columns(df) == {f \in Fields : \E i \in 1..Len(df.rows) : df.rows[i][f] # Absent}

\* ultimo_registro.get(f) for a column f: a sample without the key holds NaN
CellOf(row, f) == IF row[f] = Absent THEN NaN ELSE row[f]

\* str(value).lower()
StrLower(value) ==
    CASE value.t = "text" -> Lower(value.s)
      [] value.t = "nan" -> "nan"
      [] value.t = "null" -> "none"
      [] OTHER -> "digits"

\* float(value): the number of a decimal text, NaN for a text that spells nan
\* once stripped, ValueError for any other text, TypeError for None
Float(value) ==
    CASE value.t \in {"num", "nan"} -> [exc |-> "", val |-> value]
      [] value.t = "text" /\ Lower(Strip(value.s)) = "nan" -> [exc |-> "", val |-> NaN]
      [] value.t = "text" -> [exc |-> "ValueError", val |-> NaN]
      [] OTHER -> [exc |-> "TypeError", val |-> NaN]

\* safe_float(value, default), lines 128-134
safe_float(value, default) ==
    IF value = Null \/ value = Text("") \/ StrLower(value) = "nan" THEN default
    ELSE IF Float(value).exc \in {"ValueError", "TypeError"} THEN default
    ELSE Float(value).val

\* the defaults of lines 138-141: 0, 7.0, 25, 0
DefaultOf(f) ==
    CASE f = "field1" -> Num(0)
      [] f = "field2" -> Num(70)
      [] f = "field3" -> Num(250)
      [] OTHER -> Num(0)

\* safe_float(ultimo_registro.get(f), default) if f in df_thingspeak.columns
\* else default
Normalize(df, f) ==
    IF f \in Columns(df) THEN safe_float(CellOf(df.rows[Len(df.rows)], f), DefaultOf(f))
    ELSE DefaultOf(f)

NotProcessed ==
    [state |-> "not_called", none |-> TRUE, turbidez |-> Null, ph |-> Null,
     temperatura |-> Null, solidos_dissolvidos |-> Null]

\* the arguments of calcular_qualidade_agua
Metrics(t, p, c, d) ==
    [given |-> TRUE, turbidez |-> t, ph |-> p, temperatura |-> c, solidos_dissolvidos |-> d]
NoMetrics ==
    [given |-> FALSE, turbidez |-> Null, ph |-> Null, temperatura |-> Null,
     solidos_dissolvidos |-> Null]

NotScored ==
    [state |-> "not_called", turbidez_score |-> 0, ph_score |-> 0, temp_score |-> 0,
     solidos_score |-> 0, qualidade |-> 0]

\* processar_dados_thingspeak(df_thingspeak), lines 101-146; dashboard.py
\* hands the mapping to calcular_qualidade_agua (lines 191-198, 342)
processar_dados_thingspeak ==
    /\ dados_processados.state = "not_called"
    /\ IF df_thingspeak.none \/ Len(df_thingspeak.rows) = 0
       THEN /\ dados_processados' = [NotProcessed EXCEPT !.state = "returned"]
            /\ UNCHANGED metrics
       ELSE /\ dados_processados' =
                 [state |-> "returned", none |-> FALSE,
                  turbidez |-> Normalize(df_thingspeak, "field1"),
                  ph |-> Normalize(df_thingspeak, "field2"),
                  temperatura |-> Normalize(df_thingspeak, "field3"),
                  solidos_dissolvidos |-> Normalize(df_thingspeak, "field4")]
            /\ metrics' = Metrics(dados_processados'.turbidez, dados_processados'.ph,
                                  dados_processados'.temperatura,
                                  dados_processados'.solidos_dissolvidos)
    /\ UNCHANGED <<df_thingspeak, score, score_teste, parseVars, mergeVars, fetchVars,
                   queueVars>>

Max(a, b) == IF a > b THEN a ELSE b
Abs(a) == IF a < 0 THEN 0 - a ELSE a

\* float(x) if x is not None else default (lines 205-208)
ArgOrDefault(x, default) == IF x = Null THEN default ELSE x

\* max(0, 100 - turbidez * 20) if turbidez <= 5 else 0; a comparison with
\* NaN is False
TurbidezScore(x) ==
    IF x.t = "num" /\ x.v <= 50 THEN Max(0, 10000 - x.v * 200) ELSE 0

\* 100 - abs(ph - 7.0) * 20 if 6.0 <= ph <= 9.0 else 0
PhScore(x) ==
    IF x.t = "num" /\ 60 <= x.v /\ x.v <= 90 THEN 10000 - Abs(x.v - 70) * 200 ELSE 0

\* TempScore with 25 degrees as the ideal temperature
TempScore_Ideal25(x) ==
    IF x.t = "num" /\ 150 <= x.v /\ x.v <= 300 THEN 10000 - Abs(x.v - 250) * 40 ELSE 0

\* 100 - abs(temperatura - 22.5) * 4 if 15 <= temperatura <= 30 else 0
TempScore(x) ==
    IF x.t = "num" /\ 150 <= x.v /\ x.v <= 300 THEN 10000 - Abs(x.v - 225) * 40 ELSE 0

\* max(0, 100 - solidos_dissolvidos / 10) if solidos_dissolvidos <= 1000 else 0
SolidosScore(x) ==
    IF x.t = "num" /\ x.v <= 10000 THEN Max(0, 10000 - x.v) ELSE 0

\* Mean with the weights 2, 1, 1, 0 in place of equal weights
Mean_Weighted(a, b, c, d) == 2 * a + b + c

\* (turbidez_score + ph_score + temp_score + solidos_score) / 4: with the
\* sub-scores in 1/100 the sum is the mean in 1/400
Mean(a, b, c, d) == a + b + c + d

\* The arguments calcular_qualidade_agua is followed on: the ends and both
\* sides of every range of lines 218-236, the ideal point, values below zero
\* and None
TurbidezGrid == {Null} \cup {Num(v) : v \in {-10, 0, 10, 50, 51, 70}}
PhGrid == {Num(v) : v \in {0, 59, 60, 70, 90, 91, 140}}
TempGrid == {Num(v) : v \in {-100, 149, 150, 225, 300, 301}}
SolidosGrid == {Num(v) : v \in {-10, 0, 5000, 10000, 10001}}

\* calcular_qualidade_agua(turbidez, ph, temperatura, solidos_dissolvidos),
\* lines 194-248
calcular_qualidade_agua ==
    /\ score.state = "not_called"
    /\ metrics.given
    /\ LET t == TurbidezScore(ArgOrDefault(metrics.turbidez, Num(0)))
           p == PhScore(ArgOrDefault(metrics.ph, Num(70)))
           c == TempScore(ArgOrDefault(metrics.temperatura, Num(250)))
           d == SolidosScore(ArgOrDefault(metrics.solidos_dissolvidos, Num(0)))
       IN score' = [state |-> "returned", turbidez_score |-> t, ph_score |-> p,
                    temp_score |-> c, solidos_score |-> d, qualidade |-> Mean(t, p, c, d)]
    /\ UNCHANGED <<df_thingspeak, dados_processados, metrics, score_teste, parseVars,
                   mergeVars, fetchVars, queueVars>>

\* ------------------------------------------------------- teste.py (scorer)

\* max(0, 100 - abs(temp - 25) * 4); max(0, x) is 0 when x is NaN
TesteTempScore(x) == IF x.t = "num" THEN Max(0, 10000 - Abs(x.v - 250) * 40) ELSE 0

\* max(0, 100 - turbidez * 10)
TesteTurbidezScore(x) == IF x.t = "num" THEN Max(0, 10000 - x.v * 100) ELSE 0

\* max(0, 100 - abs(ph - 7.0) * 20)
TestePhScore(x) == IF x.t = "num" THEN Max(0, 10000 - Abs(x.v - 70) * 200) ELSE 0

\* max(0, 100 - solidos / 10)
TesteSolidosScore(x) == IF x.t = "num" THEN Max(0, 10000 - x.v) ELSE 0

\* calcular_qualidade_agua(temp, turbidez, ph, solidos) of teste.py, lines
\* 231-244: no argument may be None (TypeError in the arithmetic)
teste_calcular_qualidade_agua ==
    /\ score_teste.state = "not_called"
    /\ metrics.given
    /\ score_teste' =
          IF Null \in {metrics.temperatura, metrics.turbidez, metrics.ph,
                       metrics.solidos_dissolvidos}
          THEN [NotScored EXCEPT !.state = "raised"]
          ELSE LET c == TesteTempScore(metrics.temperatura)
                   t == TesteTurbidezScore(metrics.turbidez)
                   p == TestePhScore(metrics.ph)
                   d == TesteSolidosScore(metrics.solidos_dissolvidos)
               IN [state |-> "returned", turbidez_score |-> t, ph_score |-> p,
                   temp_score |-> c, solidos_score |-> d,
                   qualidade |-> c + t + p + d]
    /\ UNCHANGED <<df_thingspeak, dados_processados, metrics, score, parseVars,
                   mergeVars, fetchVars, queueVars>>

\* ------------------------------------------- streamlit_app (reconciler)

\* A row of a series: its timestamp (the index) and its four values, taken
\* as one
Row(ts, val) == [ts |-> ts, val |-> val]

Timestamps(rows) == {rows[i].ts : i \in 1..Len(rows)}

RECURSIVE AscendingRows(_)
\* the rows of the timestamps in S in ascending order, as pd.date_range and
\* the generator make them
AscendingRows(S) ==
    IF S = {} THEN << >>
    ELSE LET first == CHOOSE t \in S : \A u \in S : t <= u
         IN <<Row(first, 0)>> \o AscendingRows(S \ {first})

\* ler_dados_qualidade_agua(): hourly points that end now, never empty
MockSeries == {AscendingRows(S) : S \in (SUBSET (1..(MaxTime - 2))) \ {{}}}

RECURSIVE RealRows(_, _)
\* the listings of n rows with distinct timestamps drawn from S, in any order
RealRows(S, n) ==
    IF n = 0 THEN {<< >>}
    ELSE {<<Row(t, v)>> \o rest : t \in S, v \in {0, 1}, rest \in RealRows(S, n - 1)}

DistinctTimestamps(rows) == Cardinality(Timestamps(rows)) = Len(rows)

\* df_qualidade_real: None, or rows under an index that is a DatetimeIndex
\* (created_at was there) or not
Series(none, datetime, rows) == [none |-> none, datetime |-> datetime, rows |-> rows]
NoSeries == Series(TRUE, FALSE, << >>)

RealSeries ==
    {NoSeries}
    \cup {Series(FALSE, dt, rows) :
            dt \in BOOLEAN,
            rows \in {r \in UNION {RealRows(1..MaxTime, n) : n \in 0..MaxReal} :
                        DistinctTimestamps(r)}}

\* IndexMax that gives the earliest timestamp
IndexMax_Earliest(rows) == CHOOSE t \in Timestamps(rows) : \A u \in Timestamps(rows) : t <= u

\* df_combinado.index.max()
IndexMax(rows) == CHOOSE t \in Timestamps(rows) : \A u \in Timestamps(rows) : u <= t

\* Overwrite that leaves the mock row in place
Overwrite_Keep(rows, r) == rows

\* df_combinado.loc[idx] = df_qualidade_real.loc[idx]
Overwrite(rows, r) == [i \in 1..Len(rows) |-> IF rows[i].ts = r.ts THEN r ELSE rows[i]]

RECURSIVE MergeLoop(_, _)
\* for idx in df_qualidade_real.index (lines 242-248): overwrite the row of a
\* timestamp the combined series has, append a row newer than its newest
MergeLoop(comb, reals) ==
    IF reals = << >> THEN comb
    ELSE LET r == Head(reals) IN
         IF r.ts \in Timestamps(comb) THEN MergeLoop(Overwrite(comb, r), Tail(reals))
         ELSE IF r.ts > IndexMax(comb) THEN MergeLoop(Append(comb, r), Tail(reals))
         ELSE MergeLoop(comb, Tail(reals))

RECURSIVE InsertSorted(_, _, _)
\* the row r put into sorted rows; sign 1 sorts ascending, -1 descending
InsertSorted(rows, r, sign) ==
    IF rows = << >> THEN <<r>>
    ELSE IF sign * r.ts < sign * Head(rows).ts THEN <<r>> \o rows
    ELSE <<Head(rows)>> \o InsertSorted(Tail(rows), r, sign)

RECURSIVE SortBy(_, _)
SortBy(rows, sign) ==
    IF rows = << >> THEN << >>
    ELSE InsertSorted(SortBy(Tail(rows), sign), Head(rows), sign)

\* SortIndex with ascending=False
SortIndex_Descending(rows) == SortBy(rows, -1)

\* df_combinado.sort_index()
SortIndex(rows) == SortBy(rows, 1)

\* CurrentOf with iloc[0]
CurrentOf_First(rows) == rows[1]

\* the current values: .iloc[-1] of the series
CurrentOf(rows) == rows[Len(rows)]

NotCombined ==
    [state |-> "not_called", rows |-> << >>, from_dados |-> FALSE, atual |-> Row(0, 0)]

\* return turbidez_atual, ph_atual, temperatura_atual, solidos_atual, df
Combined(rows, from_dados, atual) ==
    [state |-> "returned", rows |-> rows, from_dados |-> from_dados, atual |-> atual]

\* if dados_processados: a mapping that is not None
Truthy(dados) == dados.state = "returned" /\ ~dados.none

\* Combinar without lines 252-257: the current values stay those of
\* dados_processados
Combinar_KeepDados(mock, real, dados) ==
    IF real.none \/ Len(real.rows) = 0
    THEN Combined(mock, FALSE, CurrentOf(mock))
    ELSE IF ~real.datetime
    THEN Combined(mock, Truthy(dados), CurrentOf(mock))
    ELSE LET merged == SortIndex(MergeLoop(mock, real.rows))
         IN Combined(merged, Truthy(dados), CurrentOf(mock))

\* combinar_dados_mockados_e_reais(df_qualidade_real, dados_processados),
\* lines 182-257
Combinar(mock, real, dados) ==
    IF real.none \/ Len(real.rows) = 0
    THEN Combined(mock, FALSE, CurrentOf(mock))
    ELSE IF ~real.datetime
    THEN Combined(mock, Truthy(dados), CurrentOf(mock))
    ELSE LET merged == SortIndex(MergeLoop(mock, real.rows))
         IN Combined(merged, FALSE, CurrentOf(merged))

combinar_dados_mockados_e_reais ==
    /\ combinado.state = "not_called"
    /\ combinado' = Combinar(df_qualidade_mock, df_qualidade_real, dados_processados)
    /\ UNCHANGED <<df_qualidade_mock, df_qualidade_real, parseVars, dataVars, fetchVars,
                   queueVars>>

\* -------------------------------------- streamlit_app (dashboard view)

\* The last point ler_dados_qualidade_agua() can generate, at the ends of the
\* np.random.uniform ranges of lines 110-160: turbidity 0.1..7.0, pH 5.0..9,
\* temperature 17..32, solids 50..650
MockPoints ==
    {[f \in Fields |->
        CASE f = "field1" -> Num(1) [] f = "field2" -> Num(50)
          [] f = "field3" -> Num(170) [] OTHER -> Num(500)],
     [f \in Fields |->
        CASE f = "field1" -> Num(70) [] f = "field2" -> Num(90)
          [] f = "field3" -> Num(320) [] OTHER -> Num(6500)]}

\* the mock series with the values of its points
MockSeriesOf(points) ==
    {[i \in 1..Len(m) |-> Row(m[i].ts, p)] : m \in MockSeries, p \in points}

\* What a field of a ThingSpeak sample holds on the page: nothing, a text
\* that is no number, or a number
PageCells == {Absent, Text("abc"), Num(-50), Num(225)}

\* The DataFrame buscar_dados_thingspeak returned with sucesso True: samples
\* in ascending created_at (all of them have the key, or none has), the
\* earlier ones with every field
PageFrames ==
    {Frame(FALSE, <<[k \in Fields \cup {"created_at"} |->
                        IF k = "created_at" THEN c ELSE last[k]]>>) :
        last \in [Fields -> PageCells], c \in {Absent} \cup {Num(t) : t \in 1..MaxTime}}
    \cup
    {Frame(FALSE, <<[k \in Fields \cup {"created_at"} |->
                        IF k = "created_at" THEN Num(t - 1) ELSE Num(10)],
                    [k \in Fields \cup {"created_at"} |->
                        IF k = "created_at" THEN Num(t) ELSE last[k]]>>) :
        last \in {[f \in Fields |-> x] : x \in PageCells}, t \in 2..MaxTime}

\* pd.to_numeric(col, errors='coerce').fillna(0), line 180: the number, and 0
\* for whatever is no number
ToNumeric(value) == IF value.t = "num" THEN value ELSE Num(0)

\* criar_historico_qualidade(df_thingspeak), lines 148-192: None without
\* data or without any field column; else the field columns made numeric,
\* under the created_at index when the column is there.  A column the series
\* does not have gives NaN wherever a row of the series lands in the merge.
criar_historico_qualidade(df) ==
    IF df.none \/ Len(df.rows) = 0 \/ Columns(df) = {} THEN NoSeries
    ELSE Series(FALSE, df.rows[1]["created_at"] # Absent,
                [i \in 1..Len(df.rows) |->
                    Row(IF df.rows[i]["created_at"] # Absent
                        THEN df.rows[i]["created_at"].v ELSE i - 1,
                        [f \in Fields |->
                            IF f \in Columns(df) THEN ToNumeric(CellOf(df.rows[i], f))
                            ELSE NaN])])

\* the mapping processar_dados_thingspeak returns for a DataFrame with rows
ProcessedOf(df) ==
    [state |-> "returned", none |-> FALSE,
     turbidez |-> Normalize(df, "field1"), ph |-> Normalize(df, "field2"),
     temperatura |-> Normalize(df, "field3"),
     solidos_dissolvidos |-> Normalize(df, "field4")]

\* turbidez_atual, ph_atual, temperatura_atual, solidos_atual of a point
MetricsOfPoint(p) == Metrics(p["field1"], p["field2"], p["field3"], p["field4"])

\* dados_processados.get(...) of lines 209-212
MetricsOfDados(d) == Metrics(d.turbidez, d.ph, d.temperatura, d.solidos_dissolvidos)

\* The data loading of the dashboard view, lines 414-438, up to the values
\* handed to calcular_qualidade_agua and to the cards (lines 468-520): the
\* merge when the fetch succeeded, the generator when it did not
DashboardView ==
    /\ fetch.state = "returned"
    /\ ~metrics.given
    /\ combinado.state = "not_called"
    /\ IF fetch.sucesso /\ ~fetch.none
       THEN /\ dados_processados' = ProcessedOf(df_thingspeak)
            /\ df_qualidade_real' = criar_historico_qualidade(df_thingspeak)
            /\ combinado' = Combinar(df_qualidade_mock, df_qualidade_real',
                                     dados_processados')
            /\ metrics' = IF combinado'.from_dados
                          THEN MetricsOfDados(dados_processados')
                          ELSE MetricsOfPoint(combinado'.atual.val)
       ELSE /\ metrics' = MetricsOfPoint(CurrentOf(df_qualidade_mock).val)
            /\ UNCHANGED <<dados_processados, df_qualidade_real, combinado>>
    /\ UNCHANGED <<df_thingspeak, score, score_teste, df_qualidade_mock, parseVars,
                   fetchVars, queueVars>>

\* ------------------------------ NotificationsHandler.parse_notification_params

\* The four tokens searched in the message, and the spellings of each that a
\* message can carry
TokenNames == {"turbitidy", "ph", "temperature", "tds"}

Spellings(name) ==
    CASE name = "turbitidy" -> {"turbitidy:", "Turbitidy:", "TURBITIDY:"}
      [] name = "ph" -> {"pH:", "PH:", "ph:"}
      [] name = "temperature" -> {"temperature:", "Temperature:", "TEMPERATURE:"}
      [] OTHER -> {"TDS:", "tds:"}

\* What follows a token: a decimal number, digits with several dots, or
\* nothing that is a digit or a dot
NumberTexts == {"7.1", "1.2.3", ""}

\* An occurrence of a token in the message, or none
Token(spelling, text) == [present |-> TRUE, spelling |-> spelling, text |-> text]
NoToken == [present |-> FALSE, spelling |-> "", text |-> ""]

OccurrencesOf(name) ==
    {NoToken} \cup {Token(sp, x) : sp \in Spellings(name), x \in NumberTexts}

\* notification.get('message', ''): for each token its occurrence in the text
Messages ==
    {[n \in TokenNames |-> IF n = "turbitidy" THEN a ELSE IF n = "ph" THEN b
                           ELSE IF n = "temperature" THEN c ELSE d] :
        a \in OccurrencesOf("turbitidy"), b \in OccurrencesOf("ph"),
        c \in OccurrencesOf("temperature"), d \in OccurrencesOf("tds")}

NoNotification == [given |-> FALSE, message |-> [n \in TokenNames |-> NoToken]]

\* The spellings the patterns of lines 196, 201, 206 and 211 match:
\* [Tt]urbitidy:, pH:, [Tt]emperature:, TDS:, with no re.IGNORECASE
PatternOf(name) ==
    CASE name = "turbitidy" -> {"turbitidy:", "Turbitidy:"}
      [] name = "ph" -> {"pH:"}
      [] name = "temperature" -> {"temperature:", "Temperature:"}
      [] OTHER -> {"TDS:"}

\* re.search(pattern + r'\s*([\d.]+)', message): the token is there in a
\* spelling the pattern matches, followed by at least one digit or dot
Search(name, message) ==
    /\ message[name].present
    /\ message[name].spelling \in PatternOf(name)
    /\ message[name].text # ""

\* float(match.group(1)) raises ValueError for digits with several dots
FloatRaises(text) == text = "1.2.3"

\* params[...] after the search for one token: 'N/A', or the number
ParamOf(name, message) ==
    IF Search(name, message) THEN message[name].text ELSE "N/A"

NotParsed ==
    [state |-> "not_called", turbidez |-> "N/A", ph |-> "N/A", temperatura |-> "N/A",
     tds |-> "N/A"]

\* parse_notification_params(notification), lines 171-225: nothing catches
\* the ValueError of float()
parse_notification_params ==
    /\ params.state = "not_called"
    /\ notification.given
    /\ LET message == notification.message IN
       params' =
          IF \E n \in TokenNames : Search(n, message) /\ FloatRaises(message[n].text)
          THEN [NotParsed EXCEPT !.state = "raised"]
          ELSE [state |-> "returned",
                turbidez |-> ParamOf("turbitidy", message),
                ph |-> ParamOf("ph", message),
                temperatura |-> ParamOf("temperature", message),
                tds |-> ParamOf("tds", message)]
    /\ UNCHANGED <<notification, mergeVars, dataVars, fetchVars, queueVars>>

\* ------------------------------------------------------------ specification

\* The script starts: every message of the queue is visible, nothing was
\* called, shown or stored
ScriptStart ==
    /\ status = [m \in DOMAIN shape |-> "visible"]
    /\ pc = "start"
    /\ sqs_client = FALSE
    /\ NoCall
    /\ notifications = << >>
    /\ shown = "nothing"
    /\ uncaught = FALSE
    /\ returned = << >>
    /\ nRedelivered = 0

\* The first run of a session, lines 325-332
SidebarStart ==
    /\ page = "Dashboard"
    /\ last_seen_notifications_count = 0
    /\ new_notifications_count = 0

MergeIdle ==
    /\ df_qualidade_mock = << >>
    /\ df_qualidade_real = NoSeries
    /\ combinado = NotCombined

ParseIdle ==
    /\ notification = NoNotification
    /\ params = NotParsed

\* Nothing of the data pages has run
DataIdle ==
    /\ df_thingspeak = NoFrame
    /\ dados_processados = NotProcessed
    /\ metrics = NoMetrics
    /\ score = NotScored
    /\ score_teste = NotScored

\* The queues a session can start with.  Message ids are labels and
\* receive_message returns in any order, so one queue stands for all its
\* renumberings: the one whose shapes are in ShapeRank order.
ShapeRank ==
    [s \in Shapes |->
        CASE s = "full" -> 1 [] s = "bare" -> 2 [] s = "invalid_json" -> 3
          [] s = "non_object" -> 4 [] s = "no_body" -> 5 [] OTHER -> 6]

Queues ==
    UNION {{q \in [1..n -> Shapes] :
              \A i \in 1..n, j \in 1..n : i < j => ShapeRank[q[i]] <= ShapeRank[q[j]]}
           : n \in 0..MaxMsgs}

InitEntry ==
    /\ entry \in EntryPoints
    /\ secrets \in SUBSET SecretKeys
    /\ max_messages \in IF SecretKeys \subseteq secrets THEN MaxMessagesArgs
                       ELSE {VIEW_MAX_MESSAGES}
    \* without the credentials the program has no queue to reach
    /\ shape \in IF SecretKeys \subseteq secrets THEN Queues ELSE {<< >>}
    /\ ScriptStart
    /\ http = NoRequest
    /\ fetch = NotCalled
    /\ DataIdle
    /\ MergeIdle
    /\ ParseIdle
    \* the notifications button was clicked with nothing to mark seen
    /\ page = "Notificacoes"
    /\ last_seen_notifications_count = 0
    /\ new_notifications_count = 0

\* A session of the notifications view of streamlit_app.py
Init ==
    /\ InitEntry
    /\ entry = "streamlit_app"

Next ==
    \/ OpenView
    \/ ManualFetch
    \/ AutoRefresh
    \/ ReceiveMessage
    \/ ProcessMessage
    \/ FinishFetch
    \/ VisibilityTimeout

Spec == Init /\ [][Next]_vars

\* A run of any of the three scripts that use the queue
NextEntry ==
    \/ Next
    \/ SN_Configure
    \/ SN_FirstCall
    \/ SN_Poll

SpecEntry == InitEntry /\ [][NextEntry]_vars

\* The view holds a handler, with a client or without, and get_notification
\* is called on it any number of times
InitGet ==
    /\ entry \in {"streamlit_app", "dashboard"}
    /\ secrets = SecretKeys
    /\ max_messages = VIEW_MAX_MESSAGES
    /\ shape \in Queues
    /\ status = [m \in DOMAIN shape |-> "visible"]
    /\ pc = "view"
    /\ sqs_client \in BOOLEAN
    /\ NoCall
    /\ notifications = << >>
    /\ shown = "view"
    /\ uncaught = FALSE
    /\ returned = << >>
    /\ nRedelivered = 0
    /\ http = NoRequest
    /\ fetch = NotCalled
    /\ DataIdle
    /\ MergeIdle
    /\ ParseIdle
    /\ page = "Notificacoes"
    /\ last_seen_notifications_count = 0
    /\ new_notifications_count = 0

\* the visibility timeout of a message expires between two calls
TimeoutBetweenCalls ==
    /\ pc = "view"
    /\ nRedelivered < MaxRedeliveries
    /\ nRedelivered' = nRedelivered + 1
    /\ \E m \in Ids :
         /\ status[m] = "inflight"
         /\ status' = [status EXCEPT ![m] = "visible"]
    /\ UNCHANGED <<sidebarVars, parseVars, mergeVars, dataVars, fetchVars, configVars, pc,
                   sqs_client, handlerVars, notifications, shown, uncaught, calls,
                   returned>>

NextGet ==
    \/ get_notification
    \/ TimeoutBetweenCalls

SpecGet == InitGet /\ [][NextGet]_vars

\* A session of streamlit_app.py from its first run, on the dashboard page,
\* through any page switches and fetches of the notifications view
InitSidebar ==
    /\ entry = "streamlit_app"
    /\ secrets \in SUBSET SecretKeys
    /\ max_messages = VIEW_MAX_MESSAGES
    /\ shape \in IF SecretKeys \subseteq secrets THEN Queues ELSE {<< >>}
    /\ status = [m \in DOMAIN shape |-> "visible"]
    /\ pc = "page"
    /\ sqs_client = FALSE
    /\ NoCall
    /\ notifications = << >>
    /\ shown = "nothing"
    /\ uncaught = FALSE
    /\ returned = << >>
    /\ nRedelivered = 0
    /\ http = NoRequest
    /\ fetch = NotCalled
    /\ DataIdle
    /\ MergeIdle
    /\ ParseIdle
    /\ SidebarStart

NextSidebar ==
    \/ Next
    \/ SelectPage
    \/ SelectNotificacoes

SpecSidebar == InitSidebar /\ [][NextSidebar]_vars

\* A data page calls buscar_dados_thingspeak against any exchange
InitFetch ==
    /\ entry \in {"streamlit_app", "dashboard"}
    /\ secrets = SecretKeys
    /\ max_messages = VIEW_MAX_MESSAGES
    /\ shape = << >>
    /\ ScriptStart
    /\ http \in HttpExchanges
    /\ fetch = NotCalled
    /\ DataIdle
    /\ MergeIdle
    /\ ParseIdle
    /\ SidebarStart

NextFetch == buscar_dados_thingspeak

SpecFetch == InitFetch /\ [][NextFetch]_vars

\* A data page with the queue left alone
NoQueue ==
    /\ secrets = SecretKeys
    /\ max_messages = VIEW_MAX_MESSAGES
    /\ shape = << >>
    /\ ScriptStart
    /\ http = NoRequest
    /\ fetch = NotCalled

\* The data page of dashboard.py: the DataFrame of the fetch goes to
\* processar_dados_thingspeak and the mapping to calcular_qualidade_agua
InitData ==
    /\ entry = "dashboard"
    /\ NoQueue
    /\ df_thingspeak \in DataFrames
    /\ dados_processados = NotProcessed
    /\ metrics = NoMetrics
    /\ score = NotScored
    /\ score_teste = NotScored
    /\ MergeIdle
    /\ ParseIdle
    /\ SidebarStart

NextData ==
    \/ processar_dados_thingspeak
    \/ calcular_qualidade_agua

SpecData == InitData /\ [][NextData]_vars

\* calcular_qualidade_agua called on the grid
InitScore ==
    /\ entry = "dashboard"
    /\ NoQueue
    /\ df_thingspeak = NoFrame
    /\ dados_processados = NotProcessed
    /\ metrics \in {Metrics(t, p, c, d) :
                       t \in TurbidezGrid, p \in PhGrid, c \in TempGrid, d \in SolidosGrid}
    /\ score = NotScored
    /\ score_teste = NotScored
    /\ MergeIdle
    /\ ParseIdle
    /\ SidebarStart

NextScore == calcular_qualidade_agua

SpecScore == InitScore /\ [][NextScore]_vars

\* Both scorers of the repository called on the grid
NextScorers ==
    \/ calcular_qualidade_agua
    \/ teste_calcular_qualidade_agua

SpecScorers == InitScore /\ [][NextScorers]_vars

\* The data page of streamlit_app.py after the fetch (lines 420-430): the
\* mapping of processar_dados_thingspeak, None or the defaults, and the real
\* series of criar_historico_qualidade go to combinar_dados_mockados_e_reais
InitMerge ==
    /\ entry = "streamlit_app"
    /\ NoQueue
    /\ df_thingspeak = NoFrame
    /\ dados_processados \in
          {[NotProcessed EXCEPT !.state = "returned"],
           [state |-> "returned", none |-> FALSE, turbidez |-> DefaultOf("field1"),
            ph |-> DefaultOf("field2"), temperatura |-> DefaultOf("field3"),
            solidos_dissolvidos |-> DefaultOf("field4")]}
    /\ metrics = NoMetrics
    /\ score = NotScored
    /\ score_teste = NotScored
    /\ df_qualidade_mock \in MockSeries
    /\ df_qualidade_real \in RealSeries
    /\ combinado = NotCombined
    /\ ParseIdle
    /\ SidebarStart

NextMerge == combinar_dados_mockados_e_reais

SpecMerge == InitMerge /\ [][NextMerge]_vars

\* The dashboard view of streamlit_app.py after buscar_dados_thingspeak
\* returned: a DataFrame with sucesso True, or (None, False)
InitPage ==
    /\ entry = "streamlit_app"
    /\ secrets = SecretKeys
    /\ max_messages = VIEW_MAX_MESSAGES
    /\ shape = << >>
    /\ ScriptStart
    /\ http = NoRequest
    /\ df_thingspeak \in PageFrames \cup {NoFrame}
    /\ fetch = IF df_thingspeak.none
               THEN [state |-> "returned", none |-> TRUE, df |-> << >>, sucesso |-> FALSE]
               ELSE [state |-> "returned", none |-> FALSE, sucesso |-> TRUE,
                     df |-> [i \in 1..Len(df_thingspeak.rows) |->
                               [created_at |->
                                  IF df_thingspeak.rows[i]["created_at"] = Absent
                                  THEN "absent" ELSE "iso"]]]
    /\ dados_processados = NotProcessed
    /\ metrics = NoMetrics
    /\ score = NotScored
    /\ score_teste = NotScored
    /\ df_qualidade_mock \in MockSeriesOf(MockPoints)
    /\ df_qualidade_real = NoSeries
    /\ combinado = NotCombined
    /\ ParseIdle
    /\ SidebarStart

NextPage ==
    \/ DashboardView
    \/ calcular_qualidade_agua

SpecPage == InitPage /\ [][NextPage]_vars

\* The table of the notifications view calls parse_notification_params on a
\* stored notification
InitParse ==
    /\ entry = "streamlit_app"
    /\ NoQueue
    /\ DataIdle
    /\ MergeIdle
    /\ notification \in {[given |-> TRUE, message |-> m] : m \in Messages}
    /\ params = NotParsed
    /\ SidebarStart

NextParse == parse_notification_params

SpecParse == InitParse /\ [][NextParse]_vars

\* ------------------------------------------------------------------ claims

\* the messages the notifications of a list came from
IdsOf(lst) == [i \in 1..Len(lst) |-> lst[i].id]

\* the messages of this call the for loop has been through
Visited == SubSeq(received, 1, Len(received) - Len(messages) + idx - 1)

\* the batch size get_all_notifications is to ask for
K == Min(max_messages, AWS_BATCH_LIMIT)

\* the arguments of the delete_message calls of this call, in order
RECURSIVE DeletesIn(_)
DeletesIn(log) ==
    IF log = << >> THEN << >>
    ELSE IF Head(log).op = "delete_message" THEN <<Head(log).arg>> \o DeletesIn(Tail(log))
    ELSE DeletesIn(Tail(log))

\* everything get_all_notifications has handed to its caller, the list it is
\* about to return included
Handed == returned \o (IF pc = "done" THEN all_notifications ELSE << >>)

\* C1: across the calls of get_all_notifications against one queue, delete
\* failures included, no message is in the returned lists more than once.
C1_NoMessageHandedTwice ==
    \A i, j \in 1..Len(Handed) : i # j => Handed[i].id # Handed[j].id

\* C2: for every message of a batch that parses, delete_message is called with
\* its receipt handle right after it is collected: before the next message of
\* the batch and before the next receive_message.
C2_DeleteRightAfterParse ==
    /\ DeletesIn(calls) = SelectSeq(Visited, Parses)
    /\ \A i \in 1..Len(calls) :
         calls[i].op = "append" =>
            /\ i < Len(calls)
            /\ calls[i + 1] = DeleteCall(calls[i].arg)

C2_Witness ==
    /\ Len(calls) >= 6
    /\ \E i \in 1..(Len(calls) - 1) :
         calls[i].op = "delete_message" /\ calls[i + 1].op = "append"
    /\ calls[Len(calls)].op = "receive_message"

\* C3: a message that fails to parse is the only one skipped: the other
\* messages of its batch are collected, and after the batch the loop goes on
\* or ends by the size of the batch.
C3_OnlyFailedMessageSkipped ==
    /\ \A i \in 1..Len(messages) :
         (pc # "process" \/ i < idx) =>
            (Parses(messages[i]) <=> messages[i] \in Range(IdsOf(all_notifications)))
    /\ (pc \in {"receive", "done"} /\ response.Messages # << >>) =>
         (pc = "receive" <=> Len(messages) >= K)

C3_Witness ==
    /\ pc = "receive"
    /\ Len(messages) = 2
    /\ ~Parses(messages[1])
    /\ Parses(messages[2])
    /\ messages[2] \in Range(IdsOf(all_notifications))

\* C4: get_all_notifications does not raise: when receive_message raises, the
\* call ends and returns the notifications collected until then.
C4_ReceiveErrorKeepsCollected ==
    [][/\ (pc = "receive" /\ response'.raised) =>
             (pc' = "done" /\ all_notifications' = all_notifications /\ ~uncaught')
       /\ pc = "done" => returned' = returned \o all_notifications]_vars

C4_Witness ==
    /\ pc = "done"
    /\ response.raised
    /\ nReceive >= 2
    /\ all_notifications # << >>

\* every delete_message call of this call returned: each deleted its message,
\* so none was called for the same message twice
AllDeletesReturned ==
    LET d == DeletesIn(calls) IN
    /\ \A i \in 1..Len(d) : status[d[i]] = "deleted"
    /\ \A i, j \in 1..Len(d) : i # j => d[i] # d[j]

\* C5: with fewer than K*M messages in the queue when the call begins (the
\* least such M is sizeAtCall \div K + 1) and none added, the call makes at
\* most M receive_message calls, whatever the bodies are, those that fail to
\* parse and are not deleted included.  Stated for the runs in which no
\* delete_message call fails.
C5_ReceivesBoundedByQueueSize ==
    (pc \in {"receive", "process", "done"} /\ AllDeletesReturned) =>
        nReceive <= (sizeAtCall \div K) + 1

\* C6: a further receive_message is issued exactly when the previous one
\* returned K = min(max_messages, 10) messages; no messages, or fewer than K,
\* end the call.
C6_FurtherReceiveIffFullBatch ==
    /\ \A i \in 1..Len(calls) : calls[i].op = "receive_message" => calls[i].arg = K
    /\ (pc = "receive" /\ nReceive > 0) =>
         (~response.raised /\ Len(response.Messages) = K)
    /\ (pc = "done" /\ ~response.raised) => Len(response.Messages) < K

C6_Witness ==
    /\ pc = "done"
    /\ nReceive >= 2
    /\ ~response.raised
    /\ response.Messages # << >>

\* C7: the returned list holds the parsed messages in receipt order: batch
\* after batch, each batch in the order the queue gave it, the skipped
\* messages left out.
C7_ReceiptOrder ==
    IdsOf(all_notifications) = SelectSeq(Visited, Parses)

C7_Witness ==
    /\ pc = "done"
    /\ nReceive >= 2
    /\ Len(all_notifications) >= 2
    /\ Len(received) > Len(all_notifications)

\* C8: once a fetch of the streamlit_app.py view is over, every message it
\* deleted from the queue is in st.session_state.notifications, and is still
\* there after every later fetch.
C8_DeletedMessagesKept ==
    \A m \in Ids :
        status[m] = "deleted" =>
            \/ m \in Range(IdsOf(notifications))
            \/ pc # "view" /\ m \in Range(IdsOf(all_notifications))

C8_Witness ==
    /\ pc = "view"
    /\ Len(notifications) = 2
    /\ notifications # returned
    /\ \A i \in 1..2 : status[notifications[i].id] = "deleted"

\* C9: in each of the three scripts, with SQS_QUEUE_URL or AWS_REGION absent
\* no receive_message or delete_message is issued and the run ends with a
\* message shown, not with an uncaught exception.
C9_MissingConfigurationShown ==
    ~(SecretKeys \subseteq secrets) =>
        /\ calls = << >>
        /\ ~uncaught
        /\ pc = "end" => shown \in {"warning", "error"}

\* the exchanges the fetcher is to answer with no data: no connection, a
\* timeout, a status outside 200..299, a body that is no JSON, feeds missing
\* or empty
FetchFailed(h) ==
    \/ h.transport # "ok"
    \/ ~(200 <= h.status /\ h.status < 300)
    \/ h.body.json = "undecodable"
    \/ h.body.json = "object" /\ h.body.feeds = "absent"
    \/ h.body.json = "object" /\ h.body.feeds = "list" /\ h.body.rows = << >>

\* C10: buscar_dados_thingspeak never raises; on a network error, a timeout, a
\* non-2xx status, an undecodable body or empty or missing feeds it returns
\* (None, False); it returns True only with a non-empty sequence of samples.
C10_FailsSoftly ==
    fetch.state # "not_called" =>
        /\ fetch.state = "returned"
        /\ FetchFailed(http) => (fetch.none /\ ~fetch.sucesso)
        /\ fetch.sucesso => (~fetch.none /\ Len(fetch.df) > 0)

\* the metric of the mapping that a field feeds
MetricOf(d, f) ==
    CASE f = "field1" -> d.turbidez
      [] f = "field2" -> d.ph
      [] f = "field3" -> d.temperatura
      [] OTHER -> d.solidos_dissolvidos

\* the last sample of the DataFrame
LastSample == df_thingspeak.rows[Len(df_thingspeak.rows)]

\* C11: for a non-empty sample sequence processar_dados_thingspeak returns,
\* for each of field1..field4 by itself, the number the last sample carries in
\* the field, and the default (0, 7.0, 25, 0) when the field is missing, None,
\* empty, no number or a spelling of NaN; it does not raise.
C11_LastSampleOrDefault ==
    (dados_processados.state # "not_called" /\ ~df_thingspeak.none
     /\ df_thingspeak.rows # << >>) =>
        /\ dados_processados.state = "returned"
        /\ ~dados_processados.none
        /\ \A f \in Fields :
             MetricOf(dados_processados, f) =
                IF LastSample[f].t = "num" THEN LastSample[f] ELSE DefaultOf(f)

\* C12: for every input, the empty and the None sequence included,
\* processar_dados_thingspeak returns a mapping of the four metrics, and with
\* no sample or no field it is the defaults 0, 7.0, 25, 0.
C12_AlwaysAMapping ==
    dados_processados.state # "not_called" =>
        /\ dados_processados.state = "returned"
        /\ ~dados_processados.none
        /\ Columns(df_thingspeak) = {} =>
             \A f \in Fields : MetricOf(dados_processados, f) = DefaultOf(f)

\* the four arguments as calcular_qualidade_agua uses them
ArgTurbidez == ArgOrDefault(metrics.turbidez, Num(0))
ArgPh == ArgOrDefault(metrics.ph, Num(70))
ArgTemperatura == ArgOrDefault(metrics.temperatura, Num(250))
ArgSolidos == ArgOrDefault(metrics.solidos_dissolvidos, Num(0))

\* turbidity >= 0, 0 <= pH <= 14, any temperature, solids >= 0
InDocumentedRanges ==
    /\ \A x \in {ArgTurbidez, ArgPh, ArgTemperatura, ArgSolidos} : x.t = "num"
    /\ ArgTurbidez.v >= 0
    /\ 0 <= ArgPh.v /\ ArgPh.v <= 140
    /\ ArgSolidos.v >= 0

IdealPoint == Metrics(Num(0), Num(70), Num(225), Num(0))

\* C13: with the arguments in their documented ranges calcular_qualidade_agua
\* returns a value in [0,100], and at turbidity 0, pH 7.0, temperature 22.5,
\* solids 0 it returns 100.
C13_InRangeWithin0And100 ==
    score.state = "returned" =>
        /\ InDocumentedRanges => (0 <= score.qualidade /\ score.qualidade <= 40000)
        /\ metrics = IdealPoint => score.qualidade = 40000

C13_Witness ==
    /\ score.state = "returned"
    /\ metrics = IdealPoint
    /\ score.qualidade = 40000

\* C14: the sub-score of a metric out of its range (turbidity > 5, pH < 6 or
\* > 9, temperature < 15 or > 30, solids > 1000) is 0, and the value returned
\* is the unweighted mean of the four sub-scores.
C14_OutOfRangeZeroAndMean ==
    score.state = "returned" =>
        /\ (ArgTurbidez.t = "num" /\ ArgTurbidez.v > 50) => score.turbidez_score = 0
        /\ (ArgPh.t = "num" /\ (ArgPh.v < 60 \/ ArgPh.v > 90)) => score.ph_score = 0
        /\ (ArgTemperatura.t = "num" /\ (ArgTemperatura.v < 150 \/ ArgTemperatura.v > 300))
              => score.temp_score = 0
        /\ (ArgSolidos.t = "num" /\ ArgSolidos.v > 10000) => score.solidos_score = 0
        /\ score.qualidade = score.turbidez_score + score.ph_score
                               + score.temp_score + score.solidos_score

C14_Witness ==
    /\ score.state = "returned"
    /\ metrics.turbidez = Num(51)
    /\ metrics.ph = Num(59)
    /\ metrics.temperatura = Num(301)
    /\ metrics.solidos_dissolvidos = Num(5000)
    /\ score.qualidade = 5000

\* C15: calcular_qualidade_agua returns a value in [0,100] for every four
\* numbers processar_dados_thingspeak can hand to it, whatever their sign and
\* size.
C15_AlwaysWithin0And100 ==
    score.state = "returned" => (0 <= score.qualidade /\ score.qualidade <= 40000)

\* combinar_dados_mockados_e_reais went through its merge: the real series
\* has rows and a DatetimeIndex
MergeRan ==
    /\ combinado.state = "returned"
    /\ ~df_qualidade_real.none
    /\ df_qualidade_real.rows # << >>
    /\ df_qualidade_real.datetime

\* C16: for every timestamp of both the mock and the real series, the merged
\* series has the real sample at that timestamp, in one row only, and the
\* merged series is in ascending order of timestamp.
C16_RealOverridesMock ==
    MergeRan =>
        /\ \A i \in 1..Len(df_qualidade_real.rows) :
             LET r == df_qualidade_real.rows[i] IN
             r.ts \in Timestamps(df_qualidade_mock) =>
                /\ r \in Range(combinado.rows)
                /\ Cardinality({j \in 1..Len(combinado.rows) :
                                  combinado.rows[j].ts = r.ts}) = 1
        /\ \A j \in 1..(Len(combinado.rows) - 1) :
             combinado.rows[j].ts <= combinado.rows[j + 1].ts

C16_Witness ==
    /\ MergeRan
    /\ Len(combinado.rows) > Len(df_qualidade_mock)
    /\ \E i \in 1..Len(df_qualidade_real.rows) :
         /\ df_qualidade_real.rows[i].ts \in Timestamps(df_qualidade_mock)
         /\ df_qualidade_real.rows[i].val = 1
         /\ df_qualidade_real.rows[i] \in Range(combinado.rows)

\* C17: every real sample newer than the latest timestamp of the mock series
\* is in the merged series, in whatever order the real series lists its
\* samples.
C17_NewerRealSamplesKept ==
    MergeRan =>
        \A i \in 1..Len(df_qualidade_real.rows) :
            df_qualidade_real.rows[i].ts > IndexMax(df_qualidade_mock) =>
                df_qualidade_real.rows[i] \in Range(combinado.rows)

\* C18: with the real series None or empty the mock series is returned as it
\* is, and the current values returned are its last sample.
C18_NoRealGivesMock ==
    (combinado.state = "returned"
     /\ (df_qualidade_real.none \/ df_qualidade_real.rows = << >>)) =>
        /\ combinado.rows = df_qualidade_mock
        /\ ~combinado.from_dados
        /\ combinado.atual = df_qualidade_mock[Len(df_qualidade_mock)]

C18_Witness ==
    /\ combinado.state = "returned"
    /\ ~df_qualidade_real.none
    /\ df_qualidade_real.rows = << >>
    /\ Truthy(dados_processados)
    /\ Len(df_qualidade_mock) >= 2
    /\ combinado.rows = df_qualidade_mock

\* C19: the merge is idempotent: with a real series of the same timestamps and
\* values as the mock series the merged series is that series, and merging
\* the same real series into the result gives the result again.
C19_MergeIdempotent ==
    (combinado.state = "returned" /\ ~df_qualidade_real.none
     /\ df_qualidade_real.datetime
     /\ Range(df_qualidade_real.rows) = Range(df_qualidade_mock)) =>
        /\ combinado.rows = df_qualidade_mock
        /\ SortIndex(MergeLoop(combinado.rows, df_qualidade_real.rows)) = combinado.rows

C19_Witness ==
    /\ combinado.state = "returned"
    /\ df_qualidade_real.datetime
    /\ Range(df_qualidade_real.rows) = Range(df_qualidade_mock)
    /\ Len(df_qualidade_mock) = 2
    /\ df_qualidade_real.rows # df_qualidade_mock
    /\ combinado.rows = df_qualidade_mock

\* the parameter of the mapping that a token feeds
ParamIn(r, name) ==
    CASE name = "turbitidy" -> r.turbidez
      [] name = "ph" -> r.ph
      [] name = "temperature" -> r.temperatura
      [] OTHER -> r.tds

\* C20: parse_notification_params finds each of the tokens turbitidy:, ph:,
\* temperature: and TDS: in any letter case, each by itself, and a token that
\* is not in the message gives 'N/A' for its parameter only.
C20_TokensAnyCase ==
    params.state = "returned" =>
        \A n \in TokenNames :
            LET o == notification.message[n] IN
            /\ (o.present /\ o.text = "7.1") => ParamIn(params, n) = "7.1"
            /\ ~o.present => ParamIn(params, n) = "N/A"

\* TEMP_MIN .. SOLIDOS_MAX of streamlit_app.py lines 42-49, in tenths
InRangeOf(x, lo, hi) == x.t = "num" /\ lo <= x.v /\ x.v <= hi

\* C21: every metric value the dashboard view of streamlit_app.py hands to the
\* cards and to the scorer, from ThingSpeak or from the generator, is within
\* the range of its metric: turbidity [0,10], pH [6.0,9.0], temperature
\* [15,35], dissolved solids [0,2000].
C21_DisplayedWithinRanges ==
    metrics.given =>
        /\ InRangeOf(metrics.turbidez, 0, 100)
        /\ InRangeOf(metrics.ph, 60, 90)
        /\ InRangeOf(metrics.temperatura, 150, 350)
        /\ InRangeOf(metrics.solidos_dissolvidos, 0, 20000)

\* '#': len(st.session_state.notifications) - i for the notification at
\* position i of the list (enumerate counts from 0)
AlertNumber(i) == Len(notifications) - (i - 1)

\* C22: after any sequence of fetches the history of the view is ordered
\* most-recent-first: a notification received from the queue after another
\* one precedes it in the list and has the higher alert number, so the k-th
\* notification received has the alert number k.
C22_MostRecentFirst ==
    pc = "view" =>
        /\ Len(notifications) = Len(returned)
        /\ \A k \in 1..Len(returned) :
             \E i \in 1..Len(notifications) :
                AlertNumber(i) = k /\ notifications[i] = returned[k]

\* C23: when the real series has rows and a DatetimeIndex, the four current
\* values combinar_dados_mockados_e_reais returns are those of the last row of
\* the merged series, the row of the latest timestamp, and not those of
\* dados_processados.
C23_CurrentFromMergedLastRow ==
    (metrics.given /\ MergeRan) =>
        LET last == combinado.rows[Len(combinado.rows)] IN
        /\ \A i \in 1..Len(combinado.rows) : combinado.rows[i].ts <= last.ts
        /\ ~combinado.from_dados
        /\ combinado.atual = last
        /\ metrics = MetricsOfPoint(last.val)

C23_Witness ==
    /\ metrics.given
    /\ MergeRan
    /\ combinado.rows[Len(combinado.rows)] \in Range(df_qualidade_real.rows)
    /\ metrics = MetricsOfPoint(combinado.rows[Len(combinado.rows)].val)
    /\ metrics.ph = Num(0)
    /\ dados_processados.ph = Num(70)

\* C24: in streamlit_notifications.py every message the program deleted from
\* the queue is in st.session_state.notifications afterwards.
C24_DeletedIsInHistory ==
    (entry = "streamlit_notifications" /\ pc = "sn_loop") =>
        \A m \in Ids :
            status[m] = "deleted" => m \in Range(IdsOf(notifications))

\* the body of the message is missing, is no JSON, or is JSON that is no
\* object: lines 122-128 raise
BodyFailsToParse(m) == shape[m] \in {"no_body", "invalid_json", "non_object"}

\* C25: a message whose body fails to parse is neither deleted nor returned
\* by get_all_notifications: no delete_message call is issued for it, it stays
\* in the queue after any number of calls and it is in no list returned.
C25_UnparsedNeverDeleted ==
    \A m \in Ids :
        BodyFailsToParse(m) =>
            /\ status[m] # "deleted"
            /\ DeleteCall(m) \notin Range(calls)
            /\ m \notin Range(IdsOf(all_notifications))
            /\ m \notin Range(IdsOf(returned))
            /\ m \notin Range(IdsOf(notifications))

C25_Witness ==
    /\ pc = "view"
    /\ nRedelivered = 1
    /\ returned # << >>
    /\ \E m \in Ids, n \in Ids :
         /\ shape[m] = "non_object"
         /\ status[m] = "inflight"
         /\ status[n] = "deleted"

\* the calls of a log that are op calls
CallsOf(log, op) == {i \in 1..Len(log) : log[i].op = op}

\* C26: get_notification issues at most one receive_message call and at most
\* one delete_message call, and returns a notification only when the
\* delete_message call for that message completed without error; without a
\* client, on an empty response, a parse failure or a delete failure it
\* returns None.
C26_OneReceiveOneDelete ==
    /\ [](/\ Cardinality(CallsOf(calls, "receive_message")) <= 1
          /\ Cardinality(CallsOf(calls, "delete_message")) <= 1
          /\ (~sqs_client => calls = << >>))
    /\ [][/\ returned' # returned =>
               \E m \in Ids :
                  /\ returned' = Append(returned, Notification(m))
                  /\ calls' = <<ReceiveCall(1), DeleteCall(m)>>
                  /\ status[m] = "visible"
                  /\ status'[m] = "deleted"
          /\ (\/ ~sqs_client
              \/ CallsOf(calls', "delete_message") = {}
              \/ \E m \in Ids : DeleteCall(m) \in Range(calls') /\ status'[m] # "deleted")
             => returned' = returned]_vars

C26_Witness ==
    /\ Len(returned) = 1
    /\ calls = <<ReceiveCall(1), DeleteCall(returned[1].id)>>
    /\ status[returned[1].id] = "deleted"
    /\ \E m \in Ids : Parses(m) /\ status[m] = "inflight"

\* C27: in streamlit_app.py, at the start of every render, where the sidebar
\* evaluates has_unseen, last_seen_notifications_count is the length of
\* st.session_state.notifications and new_notifications_count is 0, after
\* any page switches, manual fetches and auto-refresh cycles.
C27_CountersMatchHistory ==
    Rendered =>
        /\ last_seen_notifications_count = Len(notifications)
        /\ new_notifications_count = 0

C27_Witness ==
    /\ pc = "page"
    /\ page = "Logout"
    /\ Len(notifications) = 2
    /\ nRedelivered = 1
    /\ last_seen_notifications_count = 2

\* the timestamp t is newer than every timestamp of the mock series
NewerThanMock(t) == \A u \in Timestamps(df_qualidade_mock) : u < t

\* the timestamps of the real rows that were newer than every timestamp of the
\* merged series when the loop came to them: newer than the mock series and
\* than every real row listed before them
KeptRealTimestamps ==
    {df_qualidade_real.rows[i].ts :
        i \in {k \in 1..Len(df_qualidade_real.rows) :
                 /\ NewerThanMock(df_qualidade_real.rows[k].ts)
                 /\ \A j \in 1..(k - 1) :
                      df_qualidade_real.rows[j].ts < df_qualidade_real.rows[k].ts}}

C29_ScorersAgree ==
    (/\ score.state = "returned"
     /\ score_teste.state # "not_called"
     /\ \A x \in {metrics.turbidez, metrics.ph, metrics.temperatura,
                   metrics.solidos_dissolvidos} : x.t = "num") =>
        /\ score_teste.state = "returned"
        /\ score_teste.qualidade = score.qualidade

\* C30: parse_notification_params returns a mapping for every notification
\* and never raises, whatever characters follow a token in the message, digits
\* with several dots included.
C30_NeverRaises ==
    params.state # "not_called" => params.state = "returned"

====
